---- MODULE Spec2Model ----
(***************************************************************************)
(* Dev Link dashboard: the active-tool selector of app.py, the conversion   *)
(* registry and dispatcher of tools/file_conversion.py, the per-session     *)
(* scratch fields of the tools, the remote call of tools/ai_tools.py and    *)
(* the cached reader of tools/ocr_itt.py.                                   *)
(* One step of the model is one run of the Streamlit script, started by    *)
(* one user action; a run that waits for the remote chat endpoint is two   *)
(* steps, the request and the response.                                    *)
(***************************************************************************)
EXTENDS Integers, Sequences, FiniteSets, TLC

VARIABLES
    active_tool,        \* st.session_state.active_tool
    clicked,            \* tool button that returned True in the last run, or None
    toggles,            \* number of set_active_tool calls made by the last run
    shown,              \* display elements rendered by the last run
    lastClick,          \* tool of the most recent toggle of the session, or None
    beforeLast,         \* active tool before the most recent toggle
    scn,                \* progress of the session's toggles along Scenario
    DOCX_AVAILABLE,     \* module flag of file_conversion.py
    PDF_AVAILABLE,      \* module flag of file_conversion.py
    YAML_INSTALLED,     \* whether "import yaml" succeeds
    MARKDOWN_INSTALLED, \* whether "import markdown" succeeds
    available,          \* v["available"] of each entry of supported_conversions
    fc,                 \* what the last run rendered in the File Converter panel
    observed,           \* the parts of the state this specification follows
    event,              \* the panel widget that fired in the last run
    session_state,      \* the tools' fields of st.session_state
    visited,            \* the tools with scratch fields shown so far
    canvas,             \* the drawing held by the st_canvas component
    ai,                 \* the AI handler's call to make_api_request
    first,              \* the first conversion of the session
    cache_resource,     \* the process-wide store of st.cache_resource
    accessed,           \* <<session, object>>: objects a session's runs used
    peer,               \* the active tool of a second session of the process
    csv,                \* an uploaded CSV file and what csv_to_json made of it
    call                \* one call of a routine: its input and what it came to

vars == <<active_tool, clicked, toggles, shown, lastClick, beforeLast, scn,
          DOCX_AVAILABLE, PDF_AVAILABLE, YAML_INSTALLED, MARKDOWN_INSTALLED,
          available, fc, observed, event, session_state, visited, canvas,
          ai, first, cache_resource, accessed, peer, csv, call>>

selectorHistory == <<lastClick, beforeLast, scn>>
environment == <<DOCX_AVAILABLE, PDF_AVAILABLE, YAML_INSTALLED,
                 MARKDOWN_INSTALLED, available>>

None == "None"

(***************************************************************************)
(* app.py: the tool selector                                               *)
(***************************************************************************)

utilitiesButtonText ==
    <<"Prompt Library button", "GitHub Integration button",
      "Regex Tester button", "File Compressor button", "Translator button">>

\* the values of the three button dictionaries, in insertion order
utilities ==
    <<"Prompt Library", "GitHub Integration", "Regex Tester",
      "File Compressor", "Translator">>

buttons1 ==
    <<"Notepad", "Spreadsheet", "Drawing Tool", "File Converter", "OCR">>

buttons2 ==
    <<"Code Runner", "AI Tools", "Smart Note", "Mind Map Generator",
      "Brainstorming Board">>

Range(s) == {s[i] : i \in 1..Len(s)}

ToolButtons == Range(utilities) \cup Range(buttons1) \cup Range(buttons2)

set_active_toolNeverHides(active, tool_name) == tool_name

set_active_toolHidesAny(active, tool_name) ==
    IF active # None THEN None ELSE tool_name

\* set_active_tool: the new value of st.session_state.active_tool
set_active_tool(active, tool_name) ==
    IF active = tool_name THEN None ELSE tool_name

\* one "for ... if button(...): set_active_tool(tool_name)" loop; btn is the
\* button that returns True in this run (None when no tool button was pressed)
RECURSIVE ButtonLoop(_, _, _)
ButtonLoop(names, st, btn) ==
    IF names = <<>> THEN st
    ELSE ButtonLoop(Tail(names),
                    IF btn = Head(names)
                    THEN [active |-> set_active_tool(st.active, Head(names)),
                          n |-> st.n + 1]
                    ELSE st,
                    btn)

\* truth value of "if st.session_state.active_tool:"
Truthy(v) == v # None /\ v # ""

DisplayAreaNoBrainstorm(active) ==
    IF Truthy(active) THEN
        CASE active = "Notepad" -> {"Notepad"}
          [] active = "Spreadsheet" -> {"Spreadsheet"}
          [] active = "Drawing Tool" -> {"Drawing Tool"}
          [] active = "File Converter" -> {"File Converter"}
          [] active = "OCR" -> {"OCR"}
          [] active = "Code Runner" -> {"Code Runner"}
          [] active = "AI Tools" -> {"AI Tools"}
          [] OTHER -> {"placeholder"}
    ELSE {"welcome"}

\* section 6 of the script: the if/elif chain over the active tool
DisplayArea(active) ==
    IF Truthy(active) THEN
        CASE active = "Notepad" -> {"Notepad"}
          [] active = "Spreadsheet" -> {"Spreadsheet"}
          [] active = "Drawing Tool" -> {"Drawing Tool"}
          [] active = "File Converter" -> {"File Converter"}
          [] active = "OCR" -> {"OCR"}
          [] active = "Code Runner" -> {"Code Runner"}
          [] active = "AI Tools" -> {"AI Tools"}
          [] active = "Brainstorming Board" -> {"Brainstorming Board"}
          [] OTHER -> {"placeholder"}
    ELSE {"welcome"}

\* the state a run starts its button loops with
RunStart(active) == [active |-> active, n |-> 0]

\* the three button loops of a run, in script order
ButtonLoops(active, btn) ==
    ButtonLoop(buttons2,
               ButtonLoop(buttons1,
                          ButtonLoop(utilities, RunStart(active), btn),
                          btn),
               btn)

\* end of a run: the display area is rendered for the stored active tool
RenderEnd(st, rendered_for) ==
    [active |-> st.active, toggles |-> st.n,
     shown |-> DisplayArea(rendered_for[1])]

ScriptRunRenderFirst(active, btn) ==
    RenderEnd(ButtonLoops(active, btn), <<active>>)

\* one run of app.py from the sidebar to the display area
ScriptRun(active, btn) ==
    LET st == ButtonLoops(active, btn)
    IN  RenderEnd(st, <<st.active>>)

(***************************************************************************)
(* tools/file_conversion.py: the registry                                  *)
(***************************************************************************)

\* keys of self.supported_conversions, in insertion order
conversion_categories ==
    <<"Document Conversions", "Data Conversions", "Image Conversions",
      "Text Conversions">>

\* self.supported_conversions[category]: the entries with their declared
\* kinds and the module flag the "available" value is read from
supported_conversions(category) ==
    CASE category = "Document Conversions" ->
           << [name |-> "DOCX to PDF", input |-> "docx", output |-> "pdf", flag |-> "DOCX_AVAILABLE"],
              [name |-> "TXT to PDF", input |-> "txt", output |-> "pdf", flag |-> "PDF_AVAILABLE"],
              [name |-> "MD to HTML", input |-> "md", output |-> "html", flag |-> "True"] >>
      [] category = "Data Conversions" ->
           << [name |-> "CSV to JSON", input |-> "csv", output |-> "json", flag |-> "True"],
              [name |-> "JSON to CSV", input |-> "json", output |-> "csv", flag |-> "True"],
              [name |-> "Excel to CSV", input |-> "xlsx", output |-> "csv", flag |-> "True"],
              [name |-> "CSV to Excel", input |-> "csv", output |-> "xlsx", flag |-> "True"] >>
      [] category = "Image Conversions" ->
           << [name |-> "PNG to JPG", input |-> "png", output |-> "jpg", flag |-> "True"],
              [name |-> "JPG to PNG", input |-> "jpg", output |-> "png", flag |-> "True"],
              [name |-> "Image to Base64", input |-> "image", output |-> "base64", flag |-> "True"],
              [name |-> "Base64 to Image", input |-> "base64", output |-> "image", flag |-> "True"] >>
      [] category = "Text Conversions" ->
           << [name |-> "JSON to YAML", input |-> "json", output |-> "yaml", flag |-> "True"],
              [name |-> "YAML to JSON", input |-> "yaml", output |-> "json", flag |-> "True"],
              [name |-> "CSV to HTML Table", input |-> "csv", output |-> "html", flag |-> "True"] >>

Categories == Range(conversion_categories)

AllEntries ==
    UNION {Range(supported_conversions(c)) : c \in Categories}

EntryNames == {e.name : e \in AllEntries}

Entry(name) == CHOOSE e \in AllEntries : e.name = name

BuiltAvailableAllOptional(docx, pdf) ==
    [n \in EntryNames |->
        CASE Entry(n).flag = "DOCX_AVAILABLE" -> docx
          [] OTHER -> pdf]

\* FileConverter.__init__: the "available" value stored for every entry
BuiltAvailable(docx, pdf) ==
    [n \in EntryNames |->
        CASE Entry(n).flag = "DOCX_AVAILABLE" -> docx
          [] Entry(n).flag = "PDF_AVAILABLE" -> pdf
          [] OTHER -> TRUE]

RECURSIVE FilterNames(_, _)
FilterNames(entries, keep) ==
    IF entries = <<>> THEN <<>>
    ELSE IF keep[Head(entries).name]
         THEN <<Head(entries).name>> \o FilterNames(Tail(entries), keep)
         ELSE FilterNames(Tail(entries), keep)

available_conversionsUnfiltered(category, avail) ==
    [i \in 1..Len(supported_conversions(category)) |->
        supported_conversions(category)[i].name]

\* [k for k, v in conversions.items() if v["available"]]
available_conversions(category, avail) ==
    FilterNames(supported_conversions(category), avail)

input_handlerJsonUploaded(input_format) ==
    IF input_format = "base64" THEN "handle_base64_input"
    ELSE IF input_format \in {"txt", "md", "yaml"}
         THEN "handle_text_input"
         ELSE "handle_file_input"

\* the branch of render_file_converter that picks the input handler
input_handler(input_format) ==
    IF input_format = "base64" THEN "handle_base64_input"
    ELSE IF input_format \in {"txt", "md", "json", "yaml"}
         THEN "handle_text_input"
         ELSE "handle_file_input"

(***************************************************************************)
(* tools/file_conversion.py: dispatch and conversion routines              *)
(***************************************************************************)

\* an input payload is well formed for the routine it is handed to, or not
Payloads == {"wellformed", "malformed"}

\* outcome of a routine: what it returns or raises, and what it reports
Returned(v) == [kind |-> "return", value |-> v, errors |-> {}]
Raised == [kind |-> "raise", value |-> None, errors |-> {}]
ReturnedNone(msg) == [kind |-> "return", value |-> None, errors |-> {msg}]

LibraryCallOnce(payload) ==
    IF payload = "wellformed" /\ fc.conv.calls = 0
    THEN Returned("payload") ELSE Raised

\* a library call inside a routine: succeeds on well-formed input and raises
\* the library's exception otherwise
LibraryCall(payload) ==
    IF payload = "wellformed" THEN Returned("payload") ELSE Raised

\* the two files docx_to_pdf makes with NamedTemporaryFile(delete=False)
TempFiles == {"tmp_docx", "tmp_pdf"}

\* docx2pdf's convert on the two paths: it returns or raises an exception,
\* and each of the two files is still there afterwards or not
ConvertOutcomes == [raises : BOOLEAN, leaves : SUBSET TempFiles]

docx_to_pdf_stepsNoCleanup(docx_available, convert) ==
    IF ~docx_available
    THEN [kind |-> "return", value |-> None, created |-> {}, files |-> {}]
    ELSE IF ~convert.raises /\ convert.leaves = TempFiles
         THEN [kind |-> "return", value |-> "payload",
               created |-> TempFiles, files |-> {}]
         ELSE [kind |-> "raise", value |-> None, created |-> TempFiles,
               files |-> convert.leaves]

\* docx_to_pdf step by step: created are the temporary files it made,
\* files those that exist when it ends. Without the library it returns at
\* once. In the try block convert, open(tmp_pdf_path) and the two unlinks
\* go through if convert returned and both files are there; otherwise one
\* of them raises and the except clause unlinks each file that exists and
\* raises again.
docx_to_pdf_steps(docx_available, convert) ==
    IF ~docx_available
    THEN [kind |-> "return", value |-> None, created |-> {}, files |-> {}]
    ELSE IF ~convert.raises /\ convert.leaves = TempFiles
         THEN [kind |-> "return", value |-> "payload",
               created |-> TempFiles, files |-> convert.leaves \ TempFiles]
         ELSE [kind |-> "raise", value |-> None, created |-> TempFiles,
               files |-> convert.leaves
                         \ {f \in TempFiles : f \in convert.leaves}]

\* docx_to_pdf on an upload: convert goes through on a well-formed document
\* and raises on any other
docx_to_pdf(payload) ==
    LET r == docx_to_pdf_steps(
                 DOCX_AVAILABLE,
                 [raises |-> payload # "wellformed", leaves |-> TempFiles])
    IN  CASE ~DOCX_AVAILABLE ->
                ReturnedNone("DOCX conversion dependencies not available")
          [] r.kind = "raise" -> Raised
          [] OTHER -> Returned(r.value)

\* json_to_yaml: "import yaml" inside try / except ImportError
json_to_yaml(payload) ==
    IF ~YAML_INSTALLED
    THEN ReturnedNone("PyYAML not installed")
    ELSE LibraryCall(payload)

\* yaml_to_json: "import yaml" inside try / except ImportError
yaml_to_json(payload) ==
    IF ~YAML_INSTALLED
    THEN ReturnedNone("PyYAML not installed")
    ELSE LibraryCall(payload)

\* md_to_html: markdown.markdown, or the replace() fallback on ImportError;
\* both accept any text and return the wrapped document
md_to_html(payload) ==
    IF MARKDOWN_INSTALLED THEN Returned("payload") ELSE Returned("payload")

\* csv_text_to_html: string splitting only, accepts any text
csv_text_to_html(payload) == Returned("payload")

\* the routines that are one pandas / PIL / base64 call on the upload
csv_to_json(payload) == LibraryCall(payload)
json_to_csv(payload) == LibraryCall(payload)
excel_to_csv(payload) == LibraryCall(payload)
csv_to_excel(payload) == LibraryCall(payload)

\* the format names under which the image library has a writer registered
SAVE == {"BMP", "GIF", "JPEG", "PNG", "TIFF", "WEBP"}

\* str.upper on the output kinds of the registry
upper(format) ==
    CASE format = "jpg" -> "JPG"
      [] format = "png" -> "PNG"
      [] OTHER -> format

\* convert_image_format: Image.open on the upload, then Image.save with
\* format=output_format.upper(), which raises KeyError for a name that has
\* no writer
convert_image_format(payload, output_format) ==
    IF upper(output_format) \in SAVE THEN LibraryCall(payload) ELSE Raised

image_to_base64(payload) == Returned("payload")

NotImplemented == "not implemented"

\* the if/elif chain of convert_file: the routine a name is dispatched to
convert_file_branch(conversion_type) ==
    CASE conversion_type = "DOCX to PDF" -> "docx_to_pdf"
      [] conversion_type = "CSV to JSON" -> "csv_to_json"
      [] conversion_type = "JSON to CSV" -> "json_to_csv"
      [] conversion_type = "Excel to CSV" -> "excel_to_csv"
      [] conversion_type = "CSV to Excel" -> "csv_to_excel"
      [] conversion_type \in {"PNG to JPG", "JPG to PNG"} -> "convert_image_format"
      [] conversion_type = "Image to Base64" -> "image_to_base64"
      [] OTHER -> NotImplemented

\* the if/elif chain of convert_text
convert_text_branch(conversion_type) ==
    CASE conversion_type = "JSON to YAML" -> "json_to_yaml"
      [] conversion_type = "YAML to JSON" -> "yaml_to_json"
      [] conversion_type = "MD to HTML" -> "md_to_html"
      [] conversion_type = "CSV to HTML Table" -> "csv_text_to_html"
      [] OTHER -> NotImplemented

\* the call "self.<routine>(...)" made by a dispatcher branch
Routine(routine, payload, output_format) ==
    CASE routine = "docx_to_pdf" -> docx_to_pdf(payload)
      [] routine = "csv_to_json" -> csv_to_json(payload)
      [] routine = "json_to_csv" -> json_to_csv(payload)
      [] routine = "excel_to_csv" -> excel_to_csv(payload)
      [] routine = "csv_to_excel" -> csv_to_excel(payload)
      [] routine = "convert_image_format" ->
            convert_image_format(payload, output_format)
      [] routine = "image_to_base64" -> image_to_base64(payload)
      [] routine = "json_to_yaml" -> json_to_yaml(payload)
      [] routine = "yaml_to_json" -> yaml_to_json(payload)
      [] routine = "md_to_html" -> md_to_html(payload)
      [] routine = "csv_text_to_html" -> csv_text_to_html(payload)

\* body shared by convert_file and convert_text: the chosen branch inside
\* "try: ... except Exception as e: st.error(...); return None"
Dispatch(dispatcher, branch, payload, output_format, prefix) ==
    IF branch = NotImplemented
    THEN [dispatcher |-> dispatcher, branch |-> branch, calls |-> 0,
          value |-> None, raised |-> FALSE, errors |-> {NotImplemented}]
    ELSE LET r == Routine(branch, payload, output_format)
         IN  IF r.kind = "raise"
             THEN [dispatcher |-> dispatcher, branch |-> branch, calls |-> 1,
                   value |-> None, raised |-> FALSE, errors |-> {prefix}]
             ELSE [dispatcher |-> dispatcher, branch |-> branch, calls |-> 1,
                   value |-> r.value, raised |-> FALSE, errors |-> r.errors]

convert_fileNoExcept(conversion_type, output_format, payload) ==
    LET branch == convert_file_branch(conversion_type)
        d == Dispatch("convert_file", branch, payload, output_format,
                      "File conversion error")
    IN  IF /\ branch # NotImplemented
           /\ Routine(branch, payload, output_format).kind = "raise"
        THEN [d EXCEPT !.raised = TRUE, !.errors = {}]
        ELSE d

\* convert_file
convert_file(conversion_type, output_format, payload) ==
    Dispatch("convert_file", convert_file_branch(conversion_type), payload,
             output_format, "File conversion error")

\* convert_text
convert_text(conversion_type, output_format, payload) ==
    Dispatch("convert_text", convert_text_branch(conversion_type), payload,
             output_format, "Text conversion error")

\* no conversion was submitted in this run
NoConversion ==
    [dispatcher |-> "none", branch |-> "none", calls |-> 0, value |-> None,
     raised |-> FALSE, errors |-> {}, unhandled |-> FALSE]

\* the button branch of handle_file_input and handle_text_input: the call of
\* the dispatcher inside "try: ... except Exception as e: st.error(...)"
HandlerConvert(d) ==
    [dispatcher |-> d.dispatcher, branch |-> d.branch, calls |-> d.calls,
     value |-> d.value, raised |-> d.raised,
     errors |-> d.errors \cup
                (IF d.raised THEN {"Conversion error"}
                 ELSE IF d.value = None THEN {"Conversion failed!"} ELSE {}),
     unhandled |-> FALSE]

handle_file_input(conversion_type, input_format, output_format, payload) ==
    HandlerConvert(convert_file(conversion_type, output_format, payload))

handle_text_input(conversion_type, input_format, output_format, payload) ==
    HandlerConvert(convert_text(conversion_type, output_format, payload))

\* handle_base64_input: decodes and opens the image itself, inside try/except
handle_base64_input(conversion_type, payload) ==
    LET r == LibraryCall(payload)
    IN  [dispatcher |-> "inline", branch |-> "base64_decode", calls |-> 1,
         value |-> r.value, raised |-> FALSE,
         errors |-> IF r.kind = "raise" THEN {"Conversion error"} ELSE {},
         unhandled |-> FALSE]

(***************************************************************************)
(* tools/file_conversion.py: the panel                                     *)
(***************************************************************************)

\* the panel is not part of the page
FcHidden ==
    [view |-> "hidden", category |-> None, offered |-> <<>>,
     selected |-> None, handler |-> "none", given |-> <<>>, messages |-> {},
     unhandled |-> FALSE, conv |-> NoConversion]

\* the handler call at the end of render_file_converter; submit tells whether
\* the handler's convert button returned True with input present
RunHandler(handler, given, submit, payload) ==
    IF ~submit THEN NoConversion
    ELSE CASE handler = "handle_base64_input" ->
                handle_base64_input(given[1], payload)
           [] handler = "handle_text_input" ->
                handle_text_input(given[1], given[2], given[3], payload)
           [] handler = "handle_file_input" ->
                handle_file_input(given[1], given[2], given[3], payload)

\* the arguments of the handler call at the end of render_file_converter
handler_arguments(handler, selected_conversion) ==
    IF handler = "handle_base64_input" THEN <<selected_conversion>>
    ELSE <<selected_conversion, Entry(selected_conversion).input,
           Entry(selected_conversion).output>>

\* the form part of render_file_converter, after the availability check
RenderForm(category, offered, choice, submit, payload) ==
    LET selected == IF choice \in Range(offered) THEN choice ELSE offered[1]
        handler == input_handler(Entry(selected).input)
        given == handler_arguments(handler, selected)
    IN  [view |-> "form", category |-> category, offered |-> offered,
         selected |-> selected, handler |-> handler, given |-> given,
         messages |-> {}, unhandled |-> FALSE,
         conv |-> RunHandler(handler, given, submit, payload)]

render_file_converterNoReturn(category, choice, submit, payload) ==
    LET offered == available_conversions(category, available)
    IN  IF offered = <<>>
        THEN [view |-> "form", category |-> category, offered |-> offered,
              selected |-> None, handler |-> "none", given |-> <<>>,
              messages |-> {"No conversions available"},
              unhandled |-> TRUE, conv |-> NoConversion]
        ELSE RenderForm(category, offered, choice, submit, payload)

\* render_file_converter: category and choice are the values of the two
\* select boxes (choice falls back to the first option when it is not one)
render_file_converter(category, choice, submit, payload) ==
    LET offered == available_conversions(category, available)
    IN  IF offered = <<>>
        THEN [view |-> "empty", category |-> category, offered |-> offered,
              selected |-> None, handler |-> "none", given |-> <<>>,
              messages |-> {"No conversions available"},
              unhandled |-> FALSE, conv |-> NoConversion]
        ELSE RenderForm(category, offered, choice, submit, payload)

(***************************************************************************)
(* st.session_state: the scratch fields of the tools                       *)
(***************************************************************************)

\* longest chat history and largest ideas board followed, and most text
\* blocks in an image
MaxChat == 4
MaxIdeas == 2
MaxBlocks == 2

\* the panel widget that fires in a run: the tool whose panel holds it, the
\* widget, and what the user entered or what the library call came to; at
\* is the position of a widget rendered once per list element, results what
\* the reader's readtext returned
Event(tool, widget, arg) ==
    [tool |-> tool, widget |-> widget, arg |-> arg, at |-> 0,
     results |-> <<>>]
NoEvent == Event(None, "none", "")

\* the session_state keys the code of each tool creates
ScratchFields(tool) ==
    CASE tool = "Notepad" ->
            {"editor_content", "editor_format", "show_preview"}
      [] tool = "Spreadsheet" -> {"spreadsheet_data"}
      [] tool = "OCR" ->
            {"ocr_extracted_text", "ocr_confidence_scores",
             "ocr_processing", "ocr_results_data"}
      [] tool = "Code Runner" -> {"html_code", "css_code"}
      [] tool = "AI Tools" -> {"chat_history"}
      [] tool = "Brainstorming Board" -> {"ideas"}
      [] OTHER -> {}

ScratchTools == {t \in ToolButtons : ScratchFields(t) # {}}

\* the values the creating code gives: an empty editor in Plain Text
\* without preview, the two-row frame, an empty chat, no ideas, no OCR
\* result, the HTML template. css_code is created and reset together with
\* html_code. A text that is taken apart is a sequence of characters.
InitialValues ==
    [editor_content |-> "", editor_format |-> "Plain Text",
     show_preview |-> FALSE, spreadsheet_data |-> "two rows",
     chat_history |-> <<>>, ideas |-> <<>>, ocr_extracted_text |-> <<>>,
     ocr_confidence_scores |-> <<>>, ocr_results_data |-> <<>>,
     html_code |-> "default"]

session_start_fieldsWithIdeas == {"spreadsheet_data", "ideas"}

\* the keys the top of app.py creates in every run where they are missing
session_start_fields == {"spreadsheet_data"}

initialize_session_stateOverwrites(ss, fields) ==
    [f \in DOMAIN ss |->
        CASE f = "keys" -> ss.keys \cup fields
          [] f # "keys" /\ f \in fields -> InitialValues[f]
          [] OTHER -> ss[f]]

\* "if key not in st.session_state: st.session_state.key = initial value",
\* for each of the given keys
initialize_session_state(ss, fields) ==
    [f \in DOMAIN ss |->
        CASE f = "keys" -> ss.keys \cup fields
          [] f # "keys" /\ f \in fields \ ss.keys -> InitialValues[f]
          [] OTHER -> ss[f]]

\* st.session_state of a new session before the first run
EmptySessionState == ("keys" :> {}) @@ InitialValues

render_format_controlsKeepsPreview(ss, ev) ==
    [ss EXCEPT !.editor_format =
                   IF ev.widget = "Format" THEN ev.arg ELSE @,
               !.show_preview =
                   IF ev.widget = "Show Preview" THEN ~@ ELSE @]

\* render_format_controls: the select box stores the chosen format; the
\* Show Preview check box exists for Markdown only and stores its value,
\* for the other formats False is stored
render_format_controls(ss, ev) ==
    LET format == IF ev.widget = "Format" THEN ev.arg ELSE ss.editor_format
    IN  [ss EXCEPT !.editor_format = format,
                   !.show_preview =
                       CASE format # "Markdown" -> FALSE
                         [] ev.widget = "Show Preview" -> ~@
                         [] OTHER -> @]

\* render_notepad: the format controls, then the text area of the format
\* writes what it holds to editor_content; Clear All stores the empty
\* string and reruns
render_notepad(ss, ev) ==
    LET controls == render_format_controls(ss, ev)
    IN  CASE ev.widget = "text_area" ->
                [controls EXCEPT !.editor_content = ev.arg]
          [] ev.widget = "Clear All" -> [controls EXCEPT !.editor_content = ""]
          [] OTHER -> controls

\* the Spreadsheet branch of app.py: Add Column and the data editor store a
\* changed frame, Reset Data stores the one-row frame
render_spreadsheet(ss, ev) ==
    CASE ev.widget \in {"data_editor", "Add Column"} ->
            [ss EXCEPT !.spreadsheet_data = "edited"]
      [] ev.widget = "Reset Data" -> [ss EXCEPT !.spreadsheet_data = "one row"]
      [] OTHER -> ss

\* str.strip: the text without the blanks at its ends
strip(text) ==
    LET inked == {i \in 1..Len(text) : text[i] # " "}
    IN  IF inked = {} THEN <<>>
        ELSE SubSeq(text, CHOOSE i \in inked : \A j \in inked : i <= j,
                    CHOOSE i \in inked : \A j \in inked : j <= i)

\* separator.join(texts)
RECURSIVE join(_, _)
join(separator, texts) ==
    CASE texts = <<>> -> <<>>
      [] Len(texts) = 1 -> texts[1]
      [] OTHER -> texts[1] \o separator \o join(separator, Tail(texts))

process_ocr_resultsKeepsBlank(ss, results) ==
    [ss EXCEPT
        !.ocr_extracted_text =
            join(<<"\n">>, [i \in 1..Len(results) |-> results[i].text]),
        !.ocr_confidence_scores =
            [i \in 1..Len(results) |-> results[i].confidence],
        !.ocr_results_data = results]

\* process_ocr_results: of the blocks readtext found (text and confidence;
\* the box is carried along unread) those with a non-blank text are kept,
\* and the three result fields are stored from them
process_ocr_results(ss, results) ==
    LET kept == SelectSeq(results, LAMBDA block : strip(block.text) # <<>>)
    IN  [ss EXCEPT
            !.ocr_extracted_text =
                join(<<"\n">>, [i \in 1..Len(kept) |-> kept[i].text]),
            !.ocr_confidence_scores =
                [i \in 1..Len(kept) |-> kept[i].confidence],
            !.ocr_results_data = kept]

\* extract_text_from_image: readtext returns its blocks or raises; the
\* except clause reports the error and nothing is stored
extract_text_from_image(ss, ev) ==
    IF ev.arg = "raises" THEN ss ELSE process_ocr_results(ss, ev.results)

clear_results(ss) ==
    [ss EXCEPT !.ocr_extracted_text = <<>>,
               !.ocr_confidence_scores = <<>>,
               !.ocr_results_data = <<>>]

render_ocr_tool(ss, ev) ==
    CASE ev.widget = "Extract Text" -> extract_text_from_image(ss, ev)
      [] ev.widget = "Clear Results" -> clear_results(ss)
      [] OTHER -> ss

\* _reset_code stores the templates again
render_code_runner(ss, ev) ==
    CASE ev.widget = "code editor" -> [ss EXCEPT !.html_code = "edited"]
      [] ev.widget = "Reset Code" -> [ss EXCEPT !.html_code = "default"]
      [] OTHER -> ss

render_chatbotAnswersItself(ss, ev) ==
    CASE ev.widget = "Chatbot" ->
            [ss EXCEPT !.chat_history = Append(@, "assistant")]
      [] ev.widget = "Clear Chat" -> [ss EXCEPT !.chat_history = <<>>]
      [] OTHER -> ss

\* render_chatbot before the remote call: the prompt is appended; Clear Chat
\* stores the empty list and reruns
render_chatbot(ss, ev) ==
    CASE ev.widget = "Chatbot" ->
            [ss EXCEPT !.chat_history = Append(@, "user")]
      [] ev.widget = "Clear Chat" -> [ss EXCEPT !.chat_history = <<>>]
      [] OTHER -> ss

render_brainstormingAddsBlank(ss, ev) ==
    CASE ev.widget = "Add Idea" -> [ss EXCEPT !.ideas = Append(@, ev.arg)]
      [] ev.widget = "Delete Idea" ->
            [ss EXCEPT !.ideas = SubSeq(@, 1, ev.at - 1)
                                 \o SubSeq(@, ev.at + 1, Len(@))]
      [] OTHER -> ss

\* the Brainstorming Board branch of app.py: Add Idea appends the text of
\* the input if there is one; the delete button of an idea pops it and
\* reruns
render_brainstorming(ss, ev) ==
    CASE ev.widget = "Add Idea" ->
            IF ev.arg # "" THEN [ss EXCEPT !.ideas = Append(@, ev.arg)]
            ELSE ss
      [] ev.widget = "Delete Idea" ->
            [ss EXCEPT !.ideas = SubSeq(@, 1, ev.at - 1)
                                 \o SubSeq(@, ev.at + 1, Len(@))]
      [] OTHER -> ss

\* the part of a run that touches scratch fields: the top of the script, then
\* the branch of the display area for the rendered tool, which creates the
\* tool's missing fields and then serves the widget that fired
RenderPanels(ss, rendered, ev) ==
    LET top == initialize_session_state(ss, session_start_fields)
        tool == IF rendered \cap ScratchTools = {} THEN None
                ELSE CHOOSE t \in rendered \cap ScratchTools : TRUE
        made == initialize_session_state(top, ScratchFields(tool))
        e == IF ev.tool = tool THEN ev ELSE NoEvent
    IN  CASE tool = "Notepad" -> render_notepad(made, e)
          [] tool = "Spreadsheet" -> render_spreadsheet(made, e)
          [] tool = "OCR" -> render_ocr_tool(made, e)
          [] tool = "Code Runner" -> render_code_runner(made, e)
          [] tool = "AI Tools" -> render_chatbot(made, e)
          [] tool = "Brainstorming Board" -> render_brainstorming(made, e)
          [] OTHER -> made

st_canvasClears(drawing, ev) ==
    CASE ev.widget = "draw" -> "drawn"
      [] ev.widget = "Clear Canvas" -> "blank"
      [] OTHER -> drawing

\* the st_canvas component keeps its drawing from run to run; Clear Canvas
\* only calls st.rerun()
st_canvas(drawing, ev) ==
    CASE ev.widget = "draw" -> "drawn"
      [] ev.widget = "Clear Canvas" -> drawing
      [] OTHER -> drawing

(***************************************************************************)
(* tools/ai_tools.py: the remote chat call                                 *)
(***************************************************************************)

\* the five tabs of render_ai_tools, each with one button that calls
\* make_api_request
AiTabs ==
    {"Chatbot", "Code Explainer", "Document Summarizer", "Image Generator",
     "Code Generator"}

\* what the remote endpoint does with a request: it answers, it sends
\* nothing, it cannot be reached, or it keeps sending its answer a few bytes
\* at a time without ever completing it
Endpoints == {"answers", "silent", "unreachable", "trickles"}

\* what an answer of the endpoint looks like
Answers ==
    {"well-formed", "no choices key", "empty choices", "no message content",
     "not JSON", "error status"}

status_code(answer) == IF answer = "error status" THEN "other" ELSE "200"

\* requests.post(..., timeout=30), the outcomes it can end with: it returns
\* the answer, or raises Timeout when no byte arrives for the length of the
\* timeout, or raises another RequestException. The timeout limits each wait
\* for bytes, not the call: while bytes keep arriving the call does not end.
requests_post(endpoint) ==
    CASE endpoint = "answers" -> Answers
      [] endpoint = "silent" -> {"timeout"}
      [] endpoint = "unreachable" -> {"network error"}
      [] endpoint = "trickles" -> {}

Outcomes == UNION {requests_post(e) : e \in Endpoints}

\* AITools.__init__: st.secrets.get("OPENROUTER_API_KEY", ""), where the
\* secrets hold no such key, an empty one, or a key
Secrets == {"absent", "", "key"}
api_key(secret) == IF secret = "absent" THEN "" ELSE secret

has_api_keyAlways(key) == TRUE

\* the test "if not self.api_key" at the top of make_api_request
has_api_key(key) == key # ""

\* make_api_request from the answer of requests.post on. json_caught tells
\* whether the error response.json() raises on a body that is not JSON is a
\* RequestException, as it is in requests 2.27 and later, or a ValueError.
make_api_request(key, outcome, json_caught) ==
    IF ~has_api_key(key)
    THEN [posts |-> 0, status |-> None, returned |-> None,
          errors |-> {"API key not found"}, raised |-> FALSE]
    ELSE CASE outcome \in {"timeout", "network error"} ->
                [posts |-> 1, status |-> None, returned |-> None,
                 errors |-> {"Connection Error"}, raised |-> FALSE]
           [] outcome = "error status" ->
                [posts |-> 1, status |-> status_code(outcome),
                 returned |-> None, errors |-> {"API Error"},
                 raised |-> FALSE]
           [] outcome = "not JSON" ->
                [posts |-> 1, status |-> status_code(outcome),
                 returned |-> None,
                 errors |-> IF json_caught THEN {"Connection Error"} ELSE {},
                 raised |-> ~json_caught]
           [] OTHER ->
                [posts |-> 1, status |-> status_code(outcome),
                 returned |-> outcome, errors |-> {}, raised |-> FALSE]

\* the lines after the call in each of the five handlers:
\*   if response and "choices" in response:
\*       ... response["choices"][0]["message"]["content"] ...
\*   else: st.error("Failed ...")
\* with no try/except around them
AfterCall(key, tab, endpoint, outcome, res) ==
    LET indexed == res.returned \in
                       {"well-formed", "empty choices", "no message content"}
        failed == res.returned \in {"empty choices", "no message content"}
    IN  [key |-> key, phase |-> "idle", tab |-> tab, endpoint |-> endpoint,
         outcome |-> outcome, posts |-> res.posts, status |-> res.status,
         returned |-> res.returned,
         content |-> ~res.raised /\ res.returned = "well-formed",
         errors |-> res.errors \cup
                    (IF res.raised \/ indexed THEN {} ELSE {"Failed"}),
         unhandled |-> res.raised \/ failed]

\* no AI handler ran in the last run
AiIdle(key) ==
    [key |-> key, phase |-> "idle", tab |-> None, endpoint |-> None,
     outcome |-> None, posts |-> 0, status |-> None, returned |-> None,
     content |-> FALSE, errors |-> {}, unhandled |-> FALSE]

\* the handler of a tab up to the return of requests.post: without a key
\* make_api_request returns at once, with one the run waits for the endpoint
BeforeCall(key, tab, endpoint) ==
    IF ~has_api_key(key)
    THEN AfterCall(key, tab, None, None, make_api_request(key, None, TRUE))
    ELSE [AiIdle(key) EXCEPT !.phase = "waiting", !.tab = tab,
                             !.endpoint = endpoint, !.posts = 1]

\* render_ai_tools in a run: the button of one tab fired, or none did
render_ai_tools(key, ev) ==
    IF ev.tool = "AI Tools" /\ ev.widget \in AiTabs
    THEN BeforeCall(key, ev.widget, ev.arg)
    ELSE AiIdle(key)

(***************************************************************************)
(* tools/ocr_itt.py: the cached reader, and the objects a session uses     *)
(***************************************************************************)

Sessions == {"this", "peer"}

StateOf(session) == IF session = "this" THEN "session_state of this"
                    ELSE "session_state of peer"

\* @st.cache_resource on initialize_ocr_reader(_self): the argument with the
\* leading underscore is not part of the cache key, so the process holds one
\* entry, and every call in every session returns the Reader stored in it
initialize_ocr_reader(session) == "Reader of the process"

\* the objects a run of a session reads or writes: its session_state, and
\* the reader when extract_text_from_image calls readtext
ObjectsUsed(session, ev) ==
    {<<session, StateOf(session)>>} \cup
    (IF ev.widget = "Extract Text"
     THEN {<<session, initialize_ocr_reader(session)>>} ELSE {})

(***************************************************************************)
(* tools/file_conversion.py: csv_to_json on the content of a file          *)
(***************************************************************************)

\* most data rows of an uploaded CSV file
MaxRows == 2

\* a CSV file: a header row and data rows of as many cells
Cells == {"1", "2", "x"}
Header == <<"a", "b">>
Rows == [1..Len(Header) -> Cells]
CsvFiles ==
    {[header |-> Header, rows |-> rs] :
        rs \in UNION {[1..n -> Rows] : n \in 0..MaxRows}}

IsInteger(cell) == cell \in {"1", "2"}

\* pd.read_csv with its defaults: the first row names the columns, and a
\* column whose cells all parse as integers becomes an int64 column, any
\* other column keeps its cells as strings (dtype object)
read_csv(file) ==
    [columns |-> file.header,
     dtypes |-> [j \in 1..Len(file.header) |->
                    IF file.rows # <<>>
                       /\ \A i \in 1..Len(file.rows) : IsInteger(file.rows[i][j])
                    THEN "int64" ELSE "object"],
     values |-> file.rows]

\* df.to_json(orient='records'): one object per row, in row order, each
\* column name with the cell as a JSON number or a JSON string
to_json(df) ==
    [i \in 1..Len(df.values) |->
        [j \in 1..Len(df.columns) |->
            [name |-> df.columns[j],
             type |-> IF df.dtypes[j] = "int64" THEN "number" ELSE "string",
             text |-> df.values[i][j]]]]

NoCsv == [file |-> [header |-> Header, rows |-> <<>>], converted |-> FALSE,
          json |-> <<>>]

\* csv_to_json(uploaded_file), as convert_file calls it for "CSV to JSON"
CsvToJson ==
    /\ ~csv.converted
    /\ csv' = [csv EXCEPT !.converted = TRUE,
                          !.json = to_json(read_csv(csv.file))]
    /\ UNCHANGED <<active_tool, clicked, toggles, shown, selectorHistory,
                   environment, fc, observed, event, session_state, visited,
                   canvas, ai, first, cache_resource, accessed, peer,
                   call>>

(***************************************************************************)
(* tools/file_conversion.py: json_to_yaml and yaml_to_json on a document   *)
(***************************************************************************)

\* longest list inside a document
MaxItems == 1

\* no routine was called on its own
NoCall == [routine |-> None, done |-> FALSE]

\* the well-formed JSON texts whose top level is a mapping: each key, a
\* string, with its value, which is a scalar (a string in quotes or a
\* literal) or a list of scalars
JsonTexts ==
    LET scalars ==
            {[quoted |-> TRUE, text |-> t] :
                t \in {"a", "1", "true", "null", ""}}
            \cup {[quoted |-> FALSE, text |-> t] :
                    t \in {"1", "1.5", "true", "null"}}
        nodes ==
            {[kind |-> "scalar", items |-> <<s>>] : s \in scalars}
            \cup {[kind |-> "list", items |-> l] :
                    l \in UNION {[1..n -> scalars] : n \in 0..MaxItems}}
    IN  UNION {{ {[key |-> [quoted |-> TRUE, text |-> k], value |-> f[k]] :
                     k \in K} : f \in [K -> nodes] } :
                 K \in SUBSET {"a", "1"}}

\* a document with the function f applied to its keys and g to the scalars
\* of its values
MapDocument(doc, f, g) ==
    {[key |-> f[p.key],
      value |-> [kind |-> p.value.kind,
                 items |-> [i \in 1..Len(p.value.items) |->
                               g[p.value.items[i]]]]] : p \in doc}

\* the texts of the scalars, and the types of the values they stand for
ScalarTexts == {"a", "1", "1.5", "true", "null", ""}
ScalarTypes == {"str", "int", "float", "bool", "null"}

\* the type the YAML resolver gives a plain scalar; the JSON literals among
\* them have the type JSON gives them
resolve(text) ==
    CASE text = "1" -> "int"
      [] text = "1.5" -> "float"
      [] text = "true" -> "bool"
      [] text \in {"null", ""} -> "null"
      [] OTHER -> "str"

\* json.loads: the Python value of each scalar
json_loads(text) ==
    LET value == [t \in [quoted : BOOLEAN, text : ScalarTexts] |->
                     [type |-> IF t.quoted THEN "str" ELSE resolve(t.text),
                      text |-> t.text]]
    IN  MapDocument(text, value, value)

yaml_dumpPlain(data) ==
    LET scalar == [v \in [type : ScalarTypes, text : ScalarTexts] |->
                      [style |-> "plain", text |-> v.text]]
    IN  MapDocument(data, scalar, scalar)

\* yaml.dump: a string that the resolver would read as another type is put
\* in quotes, every other scalar is written plain
yaml_dump(data) ==
    LET scalar == [v \in [type : ScalarTypes, text : ScalarTexts] |->
                      [style |-> IF v.type = "str" /\ resolve(v.text) # "str"
                                 THEN "quoted" ELSE "plain",
                       text |-> v.text]]
    IN  MapDocument(data, scalar, scalar)

\* yaml.safe_load: a quoted scalar is a string, a plain one is resolved
yaml_safe_load(text) ==
    LET value == [y \in [style : {"plain", "quoted"}, text : ScalarTexts] |->
                     [type |-> IF y.style = "quoted" THEN "str"
                               ELSE resolve(y.text),
                      text |-> y.text]]
    IN  MapDocument(text, value, value)

\* json.dumps: strings in quotes, the other scalars as literals; a key of
\* any type is written as a string
json_dumps(data) ==
    LET key == [v \in [type : ScalarTypes, text : ScalarTexts] |->
                   [quoted |-> TRUE, text |-> v.text]]
        scalar == [v \in [type : ScalarTypes, text : ScalarTexts] |->
                      [quoted |-> v.type = "str", text |-> v.text]]
    IN  MapDocument(data, key, scalar)

\* one call of docx_to_pdf
DocxToPdf ==
    /\ call.routine = "docx_to_pdf"
    /\ ~call.done
    /\ call' = [call EXCEPT
                   !.done = TRUE,
                   !.output = docx_to_pdf_steps(call.input.available,
                                                call.input.convert)]
    /\ UNCHANGED <<active_tool, clicked, toggles, shown, selectorHistory,
                   environment, fc, observed, event, session_state, visited,
                   canvas, ai, first, cache_resource, accessed, peer, csv>>

\* most confidence scores in a list
MaxScores == 3

get_confidence_labelAbove(confidence) ==
    IF confidence > 80 THEN "High"
    ELSE IF confidence > 50 THEN "Medium" ELSE "Low"

\* get_confidence_label and get_confidence_color, on a confidence in
\* hundredths
get_confidence_label(confidence) ==
    IF confidence >= 80 THEN "High"
    ELSE IF confidence >= 50 THEN "Medium" ELSE "Low"

get_confidence_color(confidence) ==
    IF confidence >= 80 THEN "green"
    ELSE IF confidence >= 50 THEN "orange" ELSE "red"

\* confidence_ranges of render_confidence_analysis
confidence_ranges(scores) ==
    LET count(band) == Cardinality({i \in 1..Len(scores) : scores[i] \in band})
    IN  [High |-> count({c \in 0..100 : c >= 80}),
         Medium |-> count({c \in 0..100 : 50 <= c /\ c < 80}),
         Low |-> count({c \in 0..100 : c < 50})]

\* the confidence analysis and the detailed results of one list of scores:
\* the analysis shows a warning instead of the counts if the list is empty
RenderConfidence ==
    /\ call.routine = "render_confidence_analysis"
    /\ ~call.done
    /\ call' = [call EXCEPT
                   !.done = TRUE,
                   !.output =
                       [warning |-> call.input = <<>>,
                        ranges |-> confidence_ranges(call.input),
                        labels |-> [i \in 1..Len(call.input) |->
                                       get_confidence_label(call.input[i])],
                        colors |-> [i \in 1..Len(call.input) |->
                                       get_confidence_color(call.input[i])]]]
    /\ UNCHANGED <<active_tool, clicked, toggles, shown, selectorHistory,
                   environment, fc, observed, event, session_state, visited,
                   canvas, ai, first, cache_resource, accessed, peer, csv>>

\* json_to_yaml(x) and then yaml_to_json on what it returned, with PyYAML
\* installed
YamlRoundTrip ==
    /\ call.routine = "json_to_yaml"
    /\ ~call.done
    /\ call' = [call EXCEPT
                   !.done = TRUE,
                   !.yaml = yaml_dump(json_loads(call.input)),
                   !.output = json_dumps(yaml_safe_load(
                                  yaml_dump(json_loads(call.input))))]
    /\ UNCHANGED <<active_tool, clicked, toggles, shown, selectorHistory,
                   environment, fc, observed, event, session_state, visited,
                   canvas, ai, first, cache_resource, accessed, peer, csv>>

(***************************************************************************)
(* Session: one action per user action, each a full run of the script      *)
(***************************************************************************)

\* the three-toggle scenario followed by scn
Scenario == <<"Notepad", "Spreadsheet", "Notepad">>
OffScenario == Len(Scenario) + 1

\* a part of the state that the specification at hand does not follow keeps
\* its initial value
Observe(part, new, old) == IF part \in observed THEN new ELSE old

\* no conversion yet; again tells whether the entry and payload of the first
\* conversion were submitted once more
NoFirst ==
    [entry |-> None, payload |-> None, conv |-> NoConversion, again |-> FALSE]

\* a run of the script: btn is the tool button pressed (or None), ev the
\* panel widget that fired (or NoEvent), the other arguments are the widget
\* values the File Converter panel reads if shown. A run starts when no
\* earlier run of the session is waiting for the remote endpoint.
RunWith(btn, category, choice, submit, payload, ev) ==
    /\ ai.phase = "idle"
    /\ \E r \in {ScriptRun(active_tool, btn)} :
        /\ active_tool' = r.active
        /\ toggles' = r.toggles
        /\ shown' = r.shown
        /\ clicked' = btn
        /\ fc' = IF "File Converter" \in r.shown
                 THEN render_file_converter(category, choice, submit, payload)
                 ELSE FcHidden
        /\ IF btn = None \/ "history" \notin observed
           THEN UNCHANGED selectorHistory
           ELSE /\ lastClick' = btn
                /\ beforeLast' = active_tool
                /\ scn' = IF scn \in 0..(Len(Scenario) - 1)
                             /\ btn = Scenario[scn + 1]
                          THEN scn + 1
                          ELSE OffScenario
        /\ event' = ev
        /\ session_state' =
               Observe("scratch", RenderPanels(session_state, r.shown, ev),
                       session_state)
        /\ visited' = Observe("scratch",
                              visited \cup (r.shown \cap ScratchTools),
                              visited)
        /\ canvas' = IF "Drawing Tool" \in r.shown
                     THEN st_canvas(canvas, ev) ELSE "blank"
        /\ ai' = IF "AI Tools" \in r.shown
                 THEN render_ai_tools(ai.key, ev) ELSE AiIdle(ai.key)
        /\ first' =
               CASE "first" \notin observed \/ fc'.conv = NoConversion -> first
                 [] first = NoFirst ->
                       [entry |-> fc'.selected, payload |-> payload,
                        conv |-> fc'.conv, again |-> FALSE]
                 [] first.entry = fc'.selected /\ first.payload = payload ->
                       [first EXCEPT !.again = TRUE]
                 [] OTHER -> first
        /\ cache_resource' =
               Observe("sessions",
                       IF "OCR" \in r.shown
                       THEN cache_resource \cup {"initialize_ocr_reader"}
                       ELSE cache_resource,
                       cache_resource)
        /\ accessed' = Observe("sessions",
                               accessed \cup ObjectsUsed("this", ev),
                               accessed)
        /\ UNCHANGED <<environment, observed, peer, csv, call>>

\* a run in which no panel widget other than the File Converter's fired
Run(btn, category, choice, submit, payload) ==
    RunWith(btn, category, choice, submit, payload, NoEvent)

\* a run started by a widget of the panel of the tool that is shown
PanelRunWith(ev) ==
    /\ ev.tool \in shown
    /\ RunWith(None, conversion_categories[1], None, FALSE, "wellformed", ev)

PanelRun(tool, widget, arg) == PanelRunWith(Event(tool, widget, arg))

\* the user presses one of the 15 tool buttons; a panel that becomes visible
\* starts with its widgets at their defaults
ClickTool(t) ==
    /\ t \in ToolButtons
    /\ Run(t, conversion_categories[1], None, FALSE, "wellformed")

\* the user picks a category in the File Converter panel
SelectCategory(c) ==
    /\ fc.view # "hidden"
    /\ c \in Categories
    /\ Run(None, c, None, FALSE, "wellformed")

\* the user picks one of the offered conversions
SelectConversion(k) ==
    /\ fc.view = "form"
    /\ k \in Range(fc.offered)
    /\ Run(None, fc.category, k, FALSE, "wellformed")

\* the user presses the convert button with input payload p present
Submit(p) ==
    /\ fc.view = "form"
    /\ p \in Payloads
    /\ Run(None, fc.category, fc.selected, TRUE, p)

\* any other widget interaction or st.rerun(): the script runs again with no
\* tool button pressed and the select boxes unchanged
Rerun ==
    IF fc.view = "hidden"
    THEN Run(None, conversion_categories[1], None, FALSE, "wellformed")
    ELSE Run(None, fc.category, fc.selected, FALSE, "wellformed")

\* Notepad: the user leaves the text area holding text (or nothing)
TypeText(text) == text \in {"", "text"} /\ PanelRun("Notepad", "text_area", text)

ClearAll == PanelRun("Notepad", "Clear All", "")

\* the Format select box, and the Show Preview check box, which is rendered
\* while the format is Markdown
SelectFormat(format) ==
    /\ format \in {"Plain Text", "Markdown", "Rich Text"}
    /\ PanelRun("Notepad", "Format", format)

TogglePreview ==
    /\ session_state.editor_format = "Markdown"
    /\ PanelRun("Notepad", "Show Preview", "")

\* Spreadsheet: a cell edit, and the two buttons
EditCells == PanelRun("Spreadsheet", "data_editor", "")

AddColumn == PanelRun("Spreadsheet", "Add Column", "")

ResetData == PanelRun("Spreadsheet", "Reset Data", "")

\* Drawing Tool: a stroke on the canvas, and the button
Draw == PanelRun("Drawing Tool", "draw", "")

ClearCanvas == PanelRun("Drawing Tool", "Clear Canvas", "")

\* what readtext can find in an image: up to MaxBlocks blocks, each a text
\* (empty, blank, or with ink) and a confidence in hundredths
Images ==
    LET blocks == [text : {<<>>, <<" ">>, <<"a">>, <<" ", "a">>},
                   confidence : {40, 90}]
    IN  UNION {[1..n -> blocks] : n \in 0..MaxBlocks}

\* an image without text and one with a single clear block
ClearImages == {<<>>, <<[text |-> <<"a">>, confidence |-> 90]>>}

\* OCR: Extract Text on an uploaded image; the results section with its
\* Clear Results button is rendered only while there is extracted text
ExtractText(readtext, results) ==
    /\ readtext \in {"returns", "raises"}
    /\ readtext = "raises" => results = <<>>
    /\ PanelRunWith([Event("OCR", "Extract Text", readtext)
                        EXCEPT !.results = results])

ClearResults ==
    /\ session_state.ocr_extracted_text # <<>>
    /\ PanelRun("OCR", "Clear Results", "")

\* Code Runner with the language left at HTML/CSS
EditCode == PanelRun("Code Runner", "code editor", "")

ResetCode == PanelRun("Code Runner", "Reset Code", "")

\* Brainstorming Board: Add Idea with the text of the input, which may be
\* empty; a delete button is rendered for each idea
AddIdea(text) ==
    /\ text \in {"", "x", "y"}
    /\ Len(session_state.ideas) < MaxIdeas
    /\ PanelRun("Brainstorming Board", "Add Idea", text)

DeleteIdea(i) ==
    /\ i \in 1..Len(session_state.ideas)
    /\ PanelRunWith([Event("Brainstorming Board", "Delete Idea", "")
                        EXCEPT !.at = i])

ClearChat == PanelRun("AI Tools", "Clear Chat", "")

\* the button of an AI tab with its input present: the run goes as far as
\* requests.post and, with a key configured, waits there
AiRequest(tab, endpoint) ==
    /\ tab \in AiTabs
    /\ endpoint \in Endpoints
    /\ tab = "Chatbot" => Len(session_state.chat_history) + 2 <= MaxChat
    /\ PanelRun("AI Tools", tab, endpoint)

\* requests.post returns or raises and the run goes on to its end
AiResponse(outcome, json_caught) ==
    /\ ai.phase = "waiting"
    /\ outcome \in requests_post(ai.endpoint)
    /\ ai' = AfterCall(ai.key, ai.tab, ai.endpoint, outcome,
                       make_api_request(ai.key, outcome, json_caught))
    /\ session_state' =
           Observe("scratch",
                   IF ai.tab = "Chatbot" /\ ai'.content
                   THEN [session_state EXCEPT
                            !.chat_history = Append(@, "assistant")]
                   ELSE session_state,
                   session_state)
    /\ UNCHANGED <<active_tool, clicked, toggles, shown, selectorHistory,
                   environment, fc, observed, event, visited, canvas, first,
                   cache_resource, accessed, peer, csv, call>>

\* the second session toggles its OCR button: a run of the script there
PeerClickOCR ==
    /\ peer' = set_active_tool(peer, "OCR")
    /\ cache_resource' = IF peer' = "OCR"
                         THEN cache_resource \cup {"initialize_ocr_reader"}
                         ELSE cache_resource
    /\ accessed' = accessed \cup ObjectsUsed("peer", NoEvent)
    /\ UNCHANGED <<active_tool, clicked, toggles, shown, selectorHistory,
                   environment, fc, observed, event, session_state, visited,
                   canvas, ai, first, csv, call>>

\* the second session presses Extract Text in its OCR panel
PeerExtractText ==
    /\ peer = "OCR"
    /\ accessed' = accessed \cup
                   ObjectsUsed("peer", Event("OCR", "Extract Text", "returns"))
    /\ UNCHANGED <<active_tool, clicked, toggles, shown, selectorHistory,
                   environment, fc, observed, event, session_state, visited,
                   canvas, ai, first, cache_resource, peer, csv, call>>

InitSelector ==
    /\ active_tool = None
    /\ clicked = None
    /\ toggles = 0
    /\ shown = DisplayArea(None)
    /\ lastClick = None
    /\ beforeLast = None
    /\ scn = 0
    /\ fc = FcHidden

\* the rest of a session after its first run, which shows the welcome page
InitSession ==
    /\ event = NoEvent
    /\ session_state =
           initialize_session_state(EmptySessionState, session_start_fields)
    /\ visited = {}
    /\ canvas = "blank"
    /\ first = NoFirst
    /\ cache_resource = {}
    /\ accessed = {}
    /\ peer = None

\* every optional library is installed
InitInstalled ==
    /\ DOCX_AVAILABLE = TRUE
    /\ PDF_AVAILABLE = TRUE
    /\ YAML_INSTALLED = TRUE
    /\ MARKDOWN_INSTALLED = TRUE
    /\ available = BuiltAvailable(DOCX_AVAILABLE, PDF_AVAILABLE)

\* the first run of a session: each optional library is installed or not,
\* and the registry is the one __init__ builds from the module flags
Init ==
    /\ InitSelector
    /\ InitSession
    /\ observed = {"history"}
    /\ ai = AiIdle("key")
    /\ csv = NoCsv
    /\ call = NoCall
    /\ DOCX_AVAILABLE \in BOOLEAN
    /\ PDF_AVAILABLE \in BOOLEAN
    /\ YAML_INSTALLED \in BOOLEAN
    /\ MARKDOWN_INSTALLED \in BOOLEAN
    /\ available = BuiltAvailable(DOCX_AVAILABLE, PDF_AVAILABLE)

Next ==
    \/ \E t \in ToolButtons : ClickTool(t)
    \/ \E c \in Categories : SelectCategory(c)
    \/ \E k \in EntryNames : SelectConversion(k)
    \/ \E p \in Payloads : Submit(p)
    \/ Rerun

Spec == Init /\ [][Next]_vars

\* render_file_converter reads the flags from self.supported_conversions.
\* The registries it is also checked on: no optional library is installed,
\* and the flags are the built ones except in one category, whose entries
\* carry any flags.
RegistryFamily ==
    {f \in [EntryNames -> BOOLEAN] :
        \E c \in Categories :
            \A n \in EntryNames :
                n \notin {e.name : e \in Range(supported_conversions(c))}
                    => f[n] = BuiltAvailable(FALSE, FALSE)[n]}

InitAnyRegistry ==
    /\ InitSelector
    /\ InitSession
    /\ observed = {"history"}
    /\ ai = AiIdle("key")
    /\ csv = NoCsv
    /\ call = NoCall
    /\ DOCX_AVAILABLE = FALSE
    /\ PDF_AVAILABLE = FALSE
    /\ YAML_INSTALLED = FALSE
    /\ MARKDOWN_INSTALLED = FALSE
    /\ available \in RegistryFamily

SpecAnyRegistry == InitAnyRegistry /\ [][Next]_vars

\* the buttons pressed where the scratch fields are followed: the tools with
\* scratch fields, the Drawing Tool, and one tool each of those that render
\* the File Converter and the placeholder
ScratchButtons ==
    ScratchTools \cup {"Drawing Tool", "File Converter", "Translator"}

\* the scratch fields of all tools are followed
InitScratch ==
    /\ InitSelector
    /\ InitSession
    /\ InitInstalled
    /\ observed = {"scratch"}
    /\ ai = AiIdle("key")
    /\ csv = NoCsv
    /\ call = NoCall

NextScratch ==
    \/ \E t \in ScratchButtons : ClickTool(t)
    \/ \E text \in {"", "text"} : TypeText(text)
    \/ ClearAll
    \/ EditCells
    \/ AddColumn
    \/ ResetData
    \/ Draw
    \/ ClearCanvas
    \/ \E read \in {"returns", "raises"}, r \in ClearImages :
           ExtractText(read, r)
    \/ ClearResults
    \/ EditCode
    \/ ResetCode
    \/ AddIdea("x")
    \/ DeleteIdea(1)
    \/ /\ session_state.chat_history = <<>>
       /\ \E e \in Endpoints : AiRequest("Chatbot", e)
    \/ \E o \in Outcomes, c \in BOOLEAN : AiResponse(o, c)
    \/ ClearChat
    \/ Rerun

SpecScratch == InitScratch /\ [][NextScratch]_vars

\* the File Converter next to the Notepad, with the first conversion of the
\* session kept for comparison
InitConvert ==
    /\ InitSelector
    /\ InitSession
    /\ InitInstalled
    /\ observed = {"scratch", "first"}
    /\ ai = AiIdle("key")
    /\ csv = NoCsv
    /\ call = NoCall

NextConvert ==
    \/ \E t \in {"File Converter", "Notepad"} : ClickTool(t)
    \/ \E text \in {"", "text"} : TypeText(text)
    \/ \E c \in Categories : SelectCategory(c)
    \/ \E k \in EntryNames : SelectConversion(k)
    \/ \E p \in Payloads : Submit(p)
    \/ Rerun

SpecConvert == InitConvert /\ [][NextConvert]_vars

\* the AI Tools panel, with the key configured or not; requests.post returns
\* or raises once the endpoint has answered or the timeout has passed
InitAI ==
    /\ InitSelector
    /\ InitSession
    /\ InitInstalled
    /\ observed = {"scratch"}
    /\ \E secret \in Secrets : ai = AiIdle(api_key(secret))
    /\ csv = NoCsv
    /\ call = NoCall

NextAI ==
    \/ \E t \in ToolButtons : ClickTool(t)
    \/ \E tab \in AiTabs, e \in Endpoints : AiRequest(tab, e)
    \/ \E o \in Outcomes, c \in BOOLEAN : AiResponse(o, c)
    \/ ClearChat
    \/ Rerun

SpecAI ==
    /\ InitAI
    /\ [][NextAI]_vars
    /\ WF_vars(\E o \in Outcomes, c \in BOOLEAN : AiResponse(o, c))

\* two sessions of one server process, each with its OCR panel
InitSessions ==
    /\ InitSelector
    /\ InitSession
    /\ InitInstalled
    /\ observed = {"sessions"}
    /\ ai = AiIdle("key")
    /\ csv = NoCsv
    /\ call = NoCall

NextSessions ==
    \/ \E t \in ToolButtons : ClickTool(t)
    \/ \E read \in {"returns", "raises"}, r \in ClearImages :
           ExtractText(read, r)
    \/ PeerClickOCR
    \/ PeerExtractText

SpecSessions == InitSessions /\ [][NextSessions]_vars

\* csv_to_json applied to each CSV file of up to MaxRows rows
InitCsv ==
    /\ InitSelector
    /\ InitSession
    /\ InitInstalled
    /\ observed = {}
    /\ ai = AiIdle("key")
    /\ csv \in {[NoCsv EXCEPT !.file = f] : f \in CsvFiles}
    /\ call = NoCall

NextCsv == CsvToJson

SpecCsv == InitCsv /\ [][NextCsv]_vars

\* a session that uses the panel of one tool, with each input its widgets
\* take
PanelTools == {"Notepad", "OCR", "Brainstorming Board"}

InitPanels ==
    /\ InitSelector
    /\ InitSession
    /\ InitInstalled
    /\ \E t \in PanelTools : observed = {"scratch", t}
    /\ ai = AiIdle("key")
    /\ csv = NoCsv
    /\ call = NoCall

NextPanels ==
    \/ \E t \in observed \cap PanelTools : ClickTool(t)
    \/ \E text \in {"", "text"} : TypeText(text)
    \/ ClearAll
    \/ \E f \in {"Plain Text", "Markdown", "Rich Text"} : SelectFormat(f)
    \/ TogglePreview
    \/ \E read \in {"returns", "raises"}, r \in Images : ExtractText(read, r)
    \/ ClearResults
    \/ \E text \in {"", "x", "y"} : AddIdea(text)
    \/ \E i \in 1..MaxIdeas : DeleteIdea(i)
    \/ Rerun

SpecPanels == InitPanels /\ [][NextPanels]_vars

\* routines called on their own, each on every input of its kind
InitRoutines ==
    /\ InitSelector
    /\ InitSession
    /\ InitInstalled
    /\ observed = {}
    /\ ai = AiIdle("key")
    /\ csv = NoCsv
    /\ \/ \E x \in JsonTexts :
              call = [routine |-> "json_to_yaml", done |-> FALSE,
                      input |-> x, yaml |-> {}, output |-> {}]
       \/ \E a \in BOOLEAN, c \in ConvertOutcomes :
              call = [routine |-> "docx_to_pdf", done |-> FALSE,
                      input |-> [available |-> a, convert |-> c],
                      output |-> {}]
       \/ \E scores \in UNION {[1..n -> {0, 49, 50, 51, 79, 80, 81, 100}] :
                                   n \in 0..MaxScores} :
              call = [routine |-> "render_confidence_analysis",
                      done |-> FALSE, input |-> scores, output |-> {}]

NextRoutines ==
    \/ YamlRoundTrip
    \/ DocxToPdf
    \/ RenderConfidence

SpecRoutines == InitRoutines /\ [][NextRoutines]_vars

(***************************************************************************)
(* Properties                                                              *)
(***************************************************************************)

\* the identifiers of the 15 tool buttons, written out
FifteenIds ==
    {"Prompt Library", "GitHub Integration", "Regex Tester", "File Compressor",
     "Translator", "Notepad", "Spreadsheet", "Drawing Tool", "File Converter",
     "OCR", "Code Runner", "AI Tools", "Smart Note", "Mind Map Generator",
     "Brainstorming Board"}

WithPanel ==
    {"Notepad", "Spreadsheet", "Drawing Tool", "File Converter", "OCR",
     "Code Runner", "AI Tools", "Brainstorming Board"}

WithoutPanel ==
    {"Smart Note", "Mind Map Generator", "Prompt Library",
     "GitHub Integration", "Regex Tester", "File Compressor", "Translator"}

PanelOf(a) ==
    IF a = None THEN {"welcome"}
    ELSE IF a \in WithPanel THEN {a} ELSE {"placeholder"}

\* C1: a run in which tool button t is pressed takes the selector from none
\* to t, from t to none and from any other y to t; and after the toggles
\* Notepad, Spreadsheet, Notepad from session start Notepad is active.
C1_ThreeTransitions ==
    /\ [][\A t \in FifteenIds :
            clicked' = t =>
                /\ active_tool = None => active_tool' = t
                /\ active_tool = t => active_tool' = None
                /\ active_tool \notin {None, t} => active_tool' = t]_vars
    /\ [](scn = Len(Scenario) => active_tool = "Notepad")

C1_Witness == scn = Len(Scenario) /\ active_tool = "Notepad"

\* C2 as stated: a second consecutive toggle of the same x restores the
\* active tool that was stored before the first of the two.
C2_InvolutionAsStated ==
    [][(clicked' # None /\ clicked' = lastClick)
          => active_tool' = beforeLast]_vars

\* C2 amended: a second consecutive toggle of the same x restores the value
\* before the first when that value was none or x, and stores none when it
\* was another identifier y.
C2_InvolutionAmended ==
    [][(clicked' # None /\ clicked' = lastClick)
          => active_tool' = IF beforeLast \in {None, clicked'}
                            THEN beforeLast ELSE None]_vars

C2_Witness ==
    /\ lastClick = "Spreadsheet"
    /\ beforeLast = "Spreadsheet"
    /\ active_tool = None

\* C3: every render shows exactly one element: the welcome screen iff no
\* tool is active, the active identifier's own panel when it has one, and
\* the placeholder for an identifier without a panel; the File Converter
\* form is part of the page only as that panel.
C3_ExactlyOneShown ==
    /\ Cardinality(shown) = 1
    /\ ("welcome" \in shown) <=> (active_tool = None)
    /\ active_tool \in WithPanel => shown = {active_tool}
    /\ active_tool \in WithoutPanel => shown = {"placeholder"}
    /\ (fc.view # "hidden") <=> (shown = {"File Converter"})

C3_Witness == active_tool = "Smart Note" /\ shown = {"placeholder"}

\* C4: the active tool is none until the first toggle, is always none or one
\* of the 15 button identifiers, and every one of the 15 toggles is enabled
\* in every state.
C4_FifteenOrNone ==
    /\ Cardinality(FifteenIds) = 15
    /\ active_tool \in FifteenIds \cup {None}
    /\ lastClick = None => active_tool = None
    /\ \A t \in FifteenIds : ENABLED ClickTool(t)

C4_Witness == active_tool = "Translator" /\ lastClick = "Translator"

\* C5: a run applies at most one toggle, applies it before the display area
\* is rendered, and ends showing the panel of the active tool as it stands
\* after that toggle.
C5_ToggleThenRender ==
    [][/\ toggles' <= 1
       /\ clicked' # None =>
            /\ toggles' = 1
            /\ active_tool' = IF active_tool = clicked' THEN None ELSE clicked'
       /\ clicked' = None => (toggles' = 0 /\ active_tool' = active_tool)
       /\ shown' = PanelOf(active_tool')]_vars

C5_Witness == clicked = "OCR" /\ toggles = 1 /\ shown = {"OCR"}

\* C6: the conversions offered for the selected category are exactly the
\* entries of that category whose availability flag is true.
C6_OfferedAreAvailable ==
    fc.view # "hidden" =>
        /\ \A i \in 1..Len(fc.offered) :
              \E e \in Range(supported_conversions(fc.category)) :
                  e.name = fc.offered[i] /\ available[e.name]
        /\ \A e \in Range(supported_conversions(fc.category)) :
              available[e.name] => e.name \in Range(fc.offered)

C6_Witness ==
    /\ ~DOCX_AVAILABLE
    /\ PDF_AVAILABLE
    /\ fc.category = "Document Conversions"
    /\ fc.offered = <<"TXT to PDF", "MD to HTML">>

\* C7: a submission for an offered entry is dispatched to exactly one
\* conversion routine; the "not implemented" branch is never taken.
C7_EveryEntryHasRoutine ==
    fc.conv.dispatcher # "none" =>
        fc.conv.branch # NotImplemented /\ fc.conv.calls = 1

\* C8: every offered entry has the optional library it needs, so that no
\* submission fails because of a missing dependency.
C8_OfferedHaveLibraries ==
    /\ \A n \in Range(fc.offered) :
          /\ n = "DOCX to PDF" => DOCX_AVAILABLE
          /\ n = "TXT to PDF" => PDF_AVAILABLE
          /\ n \in {"JSON to YAML", "YAML to JSON"} => YAML_INSTALLED
    /\ fc.conv.errors \cap {"PyYAML not installed",
                            "DOCX conversion dependencies not available"} = {}

\* C9: when no entry of the selected category is available the panel shows
\* the "no conversions available" state and nothing else: no conversion
\* selector, no handler, no routine call, no exception.
C9_EmptyCategory ==
    (fc.view # "hidden" /\ available_conversions(fc.category, available) = <<>>)
        => /\ fc.view = "empty"
           /\ "No conversions available" \in fc.messages
           /\ fc.selected = None
           /\ fc.handler = "none"
           /\ fc.conv = NoConversion
           /\ ~fc.unhandled

C9_Witness == fc.view = "empty" /\ fc.category = "Data Conversions"

\* C10: a call of convert_file or convert_text does not raise to its caller,
\* returns a payload or None, reports a cause whenever it returns None,
\* calls the routine at most once, and leaves the File Converter active.
Causes ==
    {"File conversion error", "Text conversion error", NotImplemented,
     "PyYAML not installed", "DOCX conversion dependencies not available"}

C10_DispatcherNeverRaises ==
    fc.conv.dispatcher \in {"convert_file", "convert_text"} =>
        /\ ~fc.conv.raised
        /\ ~fc.conv.unhandled
        /\ fc.conv.value \in {"payload", None}
        /\ fc.conv.value = None => fc.conv.errors \cap Causes # {}
        /\ fc.conv.calls <= 1
        /\ active_tool = "File Converter"
        /\ clicked = None

C10_Witness ==
    /\ fc.conv.dispatcher = "convert_file"
    /\ fc.conv.calls = 1
    /\ "File conversion error" \in fc.conv.errors
    /\ fc.conv.value = None

C12_BodyIffStatus200 ==
    (ai.phase = "idle" /\ ai.tab # None /\ ai.key # "")
        => /\ ai.posts = 1
           /\ (ai.returned # None) <=> (ai.status = "200")

\* C13: with an empty or absent key no run waits for the endpoint and no
\* POST is sent; the handler of any tab gets None and the missing key is
\* reported.
C13_NoKeyNoRequest ==
    ai.key = ""
        => /\ ai.phase = "idle"
           /\ ai.posts = 0
           /\ ai.tab # None
                  => /\ ai.returned = None
                     /\ "API key not found" \in ai.errors
                     /\ ~ai.unhandled

C13_Witness ==
    /\ ai.key = ""
    /\ ai.tab = "Code Generator"
    /\ ai.returned = None
    /\ "API key not found" \in ai.errors

\* C14 (as stated): whatever the remote call came to, the handler ends its
\* run without an exception that nothing handles.
C14_NoUnhandledException == ~ai.unhandled

\* C15 (as stated): every call that waits for the endpoint returns; one that
\* ended by the timeout reported a connection error and returned None; and
\* when no call is waiting the next run is accepted.
C15_CallReturns ==
    /\ (ai.phase = "waiting") ~> (ai.phase = "idle")
    /\ [](ai.outcome = "timeout"
             => /\ ai.phase = "idle"
                /\ ai.returned = None
                /\ "Connection Error" \in ai.errors
                /\ ~ai.unhandled)
    /\ [](ai.phase = "idle" => ENABLED Rerun)

\* C16 (as stated): no object is used by the runs of two sessions.
C16_NoObjectInTwoSessions ==
    \A a \in accessed, b \in accessed : a[2] = b[2] => a[1] = b[1]

\* C17 (as stated): the scratch fields of a tool that has never been shown
\* do not exist.
C17_AllCreatedOnFirstUse ==
    \A t \in ScratchTools :
        t \notin visited => ScratchFields(t) \cap session_state.keys = {}

\* C17 (amended): spreadsheet_data exists from the start of the session; the
\* fields of every other tool exist exactly when the tool has been shown.
C17_LazyExceptSpreadsheet ==
    /\ "spreadsheet_data" \in session_state.keys
    /\ \A t \in ScratchTools \ {"Spreadsheet"} :
          IF t \in visited
          THEN ScratchFields(t) \subseteq session_state.keys
          ELSE ScratchFields(t) \cap session_state.keys = {}

C17_Witness ==
    /\ "Notepad" \in visited
    /\ "editor_content" \in session_state.keys
    /\ "OCR" \notin visited
    /\ "Spreadsheet" \notin visited

\* the content of a tool's scratch fields, and whether there is any
Content(ss, t) ==
    CASE t = "Notepad" -> <<ss.editor_content>>
      [] t = "Spreadsheet" -> <<ss.spreadsheet_data>>
      [] t = "OCR" -> <<ss.ocr_extracted_text>>
      [] t = "Code Runner" -> <<ss.html_code>>
      [] t = "AI Tools" -> <<ss.chat_history>>
      [] t = "Brainstorming Board" -> <<ss.ideas>>

HasContent(ss, t) ==
    CASE t = "Notepad" -> ss.editor_content # ""
      [] t = "Spreadsheet" -> ss.spreadsheet_data = "edited"
      [] t = "OCR" -> ss.ocr_extracted_text # <<>>
      [] t = "Code Runner" -> ss.html_code = "edited"
      [] t = "AI Tools" -> ss.chat_history # <<>>
      [] t = "Brainstorming Board" -> ss.ideas # <<>>

ClearButtons ==
    {Event("Notepad", "Clear All", ""), Event("AI Tools", "Clear Chat", ""),
     Event("OCR", "Clear Results", ""), Event("Spreadsheet", "Reset Data", ""),
     Event("Code Runner", "Reset Code", "")}

\* C18 (as stated): a toggle changes no scratch field, and a tool's content
\* is emptied only in the run of its clear or reset button (the user erasing
\* the text of the Notepad by hand is not counted).
C18_EmptiedOnlyByClear ==
    [][/\ clicked' # None => session_state.keys \subseteq session_state'.keys
       /\ \A t \in ScratchTools :
             /\ clicked' # None
                    => Content(session_state', t) = Content(session_state, t)
             /\ (HasContent(session_state, t) /\ ~HasContent(session_state', t))
                    => \/ event' \in ClearButtons /\ event'.tool = t
                       \/ event' = Event("Notepad", "text_area", "")]_vars

\* C18 (amended): no field is ever removed, and the content of a tool
\* changes only in a run started by a widget of that tool's own panel, so
\* toggles and the re-creation of the tool object leave it as it was.
C18_ChangedOnlyByOwnPanel ==
    [][/\ session_state.keys \subseteq session_state'.keys
       /\ \A t \in ScratchTools :
             Content(session_state', t) # Content(session_state, t)
                 => (clicked' = None /\ event'.tool = t)]_vars

C18_Witness ==
    /\ clicked = "Notepad"
    /\ active_tool = "Notepad"
    /\ session_state.editor_content = "text"
    /\ session_state.ocr_extracted_text # <<>>

\* C19: the run of Clear Canvas leaves the drawing on the canvas, the scratch
\* fields and the active tool as they were.
C19_ClearCanvasKeepsDrawing ==
    [][ClearCanvas =>
          /\ canvas' = canvas
          /\ session_state' = session_state
          /\ active_tool' = active_tool]_vars

C19_Witness ==
    /\ event = Event("Drawing Tool", "Clear Canvas", "")
    /\ canvas = "drawn"

\* C20 (as stated): the output of CSV to JSON has one object per data row,
\* in row order, and holds every cell as a string under its column name.
C20_CellsAreStrings ==
    csv.converted
        => /\ Len(csv.json) = Len(csv.file.rows)
           /\ \A i \in 1..Len(csv.json), j \in 1..Len(csv.file.header) :
                 csv.json[i][j] = [name |-> csv.file.header[j],
                                   type |-> "string",
                                   text |-> csv.file.rows[i][j]]

\* C21: for every well-formed JSON text with a mapping at the top, the text
\* yaml_to_json returns for the YAML that json_to_yaml returned parses to the
\* value the text itself parses to: the same keys, values and value types.
C21_YamlRoundTrip ==
    (call.routine = "json_to_yaml" /\ call.done)
        => json_loads(call.output) = json_loads(call.input)

C21_Witness ==
    /\ call.routine = "json_to_yaml"
    /\ call.done
    /\ \E p \in call.yaml : p.value.items = <<[style |-> "quoted", text |-> "1"]>>
    /\ \E p \in call.yaml : p.value.items = <<[style |-> "plain", text |-> "1"]>>

\* C22: after any sequence of extractions and Clear Results no stored block
\* has a blank text, ocr_confidence_scores and ocr_results_data have the
\* same length and the same confidence at each index, ocr_extracted_text is
\* the newline-join of the stored texts, and where the text is not empty
\* the list of scores is not empty
C22_StoredResultConsistent ==
    LET data == session_state.ocr_results_data
        scores == session_state.ocr_confidence_scores
        stored == session_state.ocr_extracted_text
    IN  /\ \A i \in 1..Len(data) : strip(data[i].text) # <<>>
        /\ Len(scores) = Len(data)
        /\ \A i \in 1..Len(data) : scores[i] = data[i].confidence
        /\ stored = join(<<"\n">>, [i \in 1..Len(data) |-> data[i].text])
        /\ stored # <<>> => scores # <<>>

C22_Witness ==
    /\ event.widget = "Extract Text"
    /\ Len(event.results) = 2
    /\ strip(event.results[1].text) = <<>>
    /\ Len(session_state.ocr_results_data) = 1
    /\ session_state.ocr_extracted_text = <<" ", "a">>
    /\ session_state.ocr_confidence_scores = <<40>>

C29_PreviewOnlyForMarkdown ==
    [][/\ session_state'.show_preview
           => session_state'.editor_format = "Markdown"
       /\ session_state'.editor_format
           \in {"Plain Text", "Markdown", "Rich Text"}
       /\ (/\ session_state.editor_format = "Markdown"
           /\ event'.widget = "Format"
           /\ event'.arg # "Markdown")
           => /\ ~session_state'.show_preview
              /\ session_state'.editor_format = event'.arg
              /\ session_state'.editor_content
                 = session_state.editor_content]_vars

C29_Witness ==
    /\ event = Event("Notepad", "Format", "Rich Text")
    /\ session_state.editor_format = "Rich Text"
    /\ session_state.editor_content = "text"
    /\ ~session_state.show_preview

\* C23 as stated: the handler follows from the declared input kind of the
\* selected entry alone, one handler runs per render, and the handler is
\* given the entry's name and its declared input and output kinds
C23_HandlerGivenNameAndKinds ==
    fc.view = "form" =>
        LET entry == Entry(fc.selected)
        IN  /\ fc.handler =
                   CASE entry.input = "base64" -> "handle_base64_input"
                     [] entry.input \in {"txt", "md", "json", "yaml"} ->
                            "handle_text_input"
                     [] OTHER -> "handle_file_input"
            /\ fc.given = <<entry.name, entry.input, entry.output>>

\* C23, amended: the handler follows from the declared input kind of the
\* selected entry alone and one handler runs per render; the text handler
\* and the file-upload handler are given the entry's name and its declared
\* input and output kinds, the base64 handler is given the name only
C23_HandlerByInputKind ==
    fc.view = "form" =>
        LET entry == Entry(fc.selected)
        IN  /\ fc.handler =
                   CASE entry.input = "base64" -> "handle_base64_input"
                     [] entry.input \in {"txt", "md", "json", "yaml"} ->
                            "handle_text_input"
                     [] OTHER -> "handle_file_input"
            /\ fc.given = IF entry.input = "base64" THEN <<entry.name>>
                          ELSE <<entry.name, entry.input, entry.output>>
            /\ fc.conv # NoConversion =>
                   fc.conv.dispatcher =
                       CASE fc.handler = "handle_base64_input" -> "inline"
                         [] fc.handler = "handle_text_input" -> "convert_text"
                         [] OTHER -> "convert_file"

C23_Witness ==
    /\ fc.view = "form"
    /\ fc.selected = "JSON to CSV"
    /\ fc.handler = "handle_text_input"
    /\ fc.given = <<"JSON to CSV", "json", "csv">>
    /\ fc.conv # NoConversion

\* C24: a valid image submitted to PNG to JPG or to JPG to PNG comes back
\* as a payload and no failure is reported
C24_ImageConversionsReturn ==
    (/\ fc.view = "form"
     /\ fc.selected \in {"PNG to JPG", "JPG to PNG"}
     /\ first.entry = fc.selected
     /\ first.payload = "wellformed")
        => /\ first.conv.value # None
           /\ first.conv.errors = {}

\* C25: whichever of the optional libraries are installed, every category
\* of the registry as built offers at least one conversion, and no run
\* renders the "no conversions available" branch
C25_EveryCategoryOffers ==
    /\ available = BuiltAvailable(DOCX_AVAILABLE, PDF_AVAILABLE)
    /\ \A c \in Categories : available_conversions(c, available) # <<>>
    /\ fc.view # "empty"

C25_Witness ==
    /\ ~DOCX_AVAILABLE
    /\ ~PDF_AVAILABLE
    /\ fc.view = "form"
    /\ fc.category = "Document Conversions"
    /\ fc.offered = <<"MD to HTML">>

\* C26: chat_history holds user and assistant entries only and every
\* assistant entry comes right after a user entry; a submission whose
\* request fails adds one user entry and no assistant entry; Clear Chat
\* leaves the history empty
C26_ChatHistoryWellFormed ==
    [][LET old == session_state.chat_history
           new == session_state'.chat_history
       IN  /\ \A i \in 1..Len(new) : new[i] \in {"user", "assistant"}
           /\ \A i \in 1..Len(new) :
                  new[i] = "assistant" => i > 1 /\ new[i - 1] = "user"
           /\ (ai.phase = "idle" /\ event'.widget = "Chatbot") =>
                  new = Append(old, "user")
           /\ (ai.phase = "waiting" /\ ai.tab = "Chatbot") =>
                  new = IF ai'.content THEN Append(old, "assistant") ELSE old
           /\ (ai.phase = "idle" /\ event'.widget = "Clear Chat") =>
                  new = <<>>]_vars

C26_Witness ==
    /\ session_state.chat_history = <<"user", "user", "assistant">>
    /\ ai.tab = "Chatbot"
    /\ ai.content

\* C27: when docx_to_pdf ends, returning the payload or raising from the
\* try block, neither temporary file exists any more; without the library
\* it returns None and has made no temporary file
C27_TempFilesDeleted ==
    (call.routine = "docx_to_pdf" /\ call.done) =>
        /\ call.output.files = {}
        /\ call.input.available => call.output.created = TempFiles
        /\ ~call.input.available =>
               /\ call.output.kind = "return"
               /\ call.output.value = None
               /\ call.output.created = {}

C27_Witness ==
    /\ call.routine = "docx_to_pdf"
    /\ call.done
    /\ call.input.available
    /\ call.input.convert = [raises |-> TRUE, leaves |-> TempFiles]
    /\ call.output.kind = "raise"
    /\ call.output.files = {}

\* C30: the High, Medium and Low counts of the confidence analysis add up
\* to the number of scores, each score is counted in one band, and the
\* label and the colour of every score are those of the band it is counted
\* in, with 0.8 in High and 0.5 in Medium
C30_BandsPartitionScores ==
    (call.routine = "render_confidence_analysis" /\ call.done) =>
        LET scores == call.input
            out == call.output
            Labelled(l) == {i \in 1..Len(scores) : out.labels[i] = l}
        IN  /\ out.ranges.High + out.ranges.Medium + out.ranges.Low
                   = Len(scores)
            /\ out.ranges.High = Cardinality(Labelled("High"))
            /\ out.ranges.Medium = Cardinality(Labelled("Medium"))
            /\ out.ranges.Low = Cardinality(Labelled("Low"))
            /\ \A i \in 1..Len(scores) :
                   /\ out.labels[i] =
                          CASE scores[i] >= 80 -> "High"
                            [] scores[i] >= 50 /\ scores[i] < 80 -> "Medium"
                            [] scores[i] < 50 -> "Low"
                   /\ out.colors[i] =
                          CASE out.labels[i] = "High" -> "green"
                            [] out.labels[i] = "Medium" -> "orange"
                            [] out.labels[i] = "Low" -> "red"

C30_Witness ==
    /\ call.routine = "render_confidence_analysis"
    /\ call.done
    /\ call.input = <<50, 80, 49>>
    /\ call.output.ranges = [High |-> 1, Medium |-> 1, Low |-> 1]
    /\ call.output.labels = <<"Medium", "High", "Low">>

====
